---- MODULE Spec2Model ----
(***************************************************************************)
(* Job application tracker: the Excel-backed record store (excelService)   *)
(* and the application service built on it (applicationService).           *)
(*                                                                         *)
(* Text is a sequence of tokens (one token = one character, except that a  *)
(* URL scheme "https://" or "http://" is a single token).  An optional     *)
(* field is a set: {} is undefined, {v} is the value v.  A spreadsheet     *)
(* cell is a set as well: {} is an empty cell, {v} a cell holding v.       *)
(* Timestamps (ISO strings in the code, compared as strings) are naturals. *)
(***************************************************************************)
EXTENDS Integers, Sequences, FiniteSets, TLC

\* ------------------------------------------------------------------ bounds
MaxClock == 3
MaxApps == 3

Procs == {1, 2}

\* --------------------------------------------------------------- constants
DEFAULT_STATUS == "TODO"
DEFAULT_PRIORITY == "MEDIUM"

Statuses == {"TODO", "APPLIED", "INTERVIEW", "OFFER", "REJECTED", "ARCHIVED"}
Priorities == {"LOW", "MEDIUM", "HIGH"}

None == {}
Some(v) == {v}
Val(o) == CHOOSE v \in o : TRUE

\* JavaScript truthiness of an optional string: undefined and '' are falsy.
Truthy(o) == o # {} /\ o # {<<>>}

\* ------------------------------------------------------------------- text
Schemes == {"http://", "https://"}

Lower(c) == IF c = "A" THEN "a" ELSE IF c = "T" THEN "t" ELSE c

ToLowerCase(s) == [i \in 1..Len(s) |-> Lower(s[i])]

RECURSIVE TrimStart(_)
TrimStart(s) == IF s # <<>> /\ Head(s) = " " THEN TrimStart(Tail(s)) ELSE s

RECURSIVE TrimEnd(_)
TrimEnd(s) ==
  IF s # <<>> /\ s[Len(s)] = " " THEN TrimEnd(SubSeq(s, 1, Len(s) - 1)) ELSE s

Trim(s) == TrimEnd(TrimStart(s))

StartsWithHttp(s) == s # <<>> /\ Head(s) \in Schemes

\* replace(/\/+$/, ''): the slashes that end the string go, those of a scheme
\* that ends the string included ("https://" becomes "https:").
RECURSIVE StripTrailingSlashes(_)
StripTrailingSlashes(s) ==
  IF s = <<>> THEN s
  ELSE IF s[Len(s)] = "/" THEN StripTrailingSlashes(SubSeq(s, 1, Len(s) - 1))
  ELSE IF s[Len(s)] = "https://" THEN SubSeq(s, 1, Len(s) - 1) \o <<"https:">>
  ELSE IF s[Len(s)] = "http://" THEN SubSeq(s, 1, Len(s) - 1) \o <<"http:">>
  ELSE s

AddProtocol(s) == IF StartsWithHttp(s) THEN s ELSE <<"https://">> \o s

normalizeUrlForComparison(url) ==
  IF Trim(url) = <<>> THEN <<>>
  ELSE StripTrailingSlashes(ToLowerCase(AddProtocol(Trim(url))))

\* ----------------------------------------------------------------- records
OptionalText == {"linkTitle", "company", "roleTitle", "location", "notes"}
DerivedDates == {"appliedDate", "interviewDate", "offerDate", "rejectedDate"}
Columns ==
  <<"id", "url", "linkTitle", "company", "roleTitle", "location", "status",
    "priority", "notes", "appliedDate", "interviewDate", "offerDate",
    "rejectedDate", "createdAt", "updatedAt">>
Fields == {Columns[i] : i \in 1..Len(Columns)}

\* ------------------------------------------------------------ excelService
\* One worksheet row written by saveApplications: `app.x || ''` leaves the cell
\* empty for undefined and for '', the other columns are written as they are.
EncodeRow(app) ==
  [f \in Fields |->
     IF f = "url" THEN (IF app.url = <<>> THEN None ELSE Some(app.url))
     ELSE IF f \in OptionalText THEN (IF Truthy(app[f]) THEN app[f] ELSE None)
     ELSE IF f \in DerivedDates THEN app[f]
     ELSE Some(app[f])]

EncodeRows(applications) ==
  [i \in 1..Len(applications) |-> EncodeRow(applications[i])]

\* The bytes of a workbook holding the header row and one row per application.
Workbook(rows) == [kind |-> "xlsx", rows |-> rows]
Absent == [kind |-> "absent", rows |-> <<>>]
Garbage == [kind |-> "garbage", rows |-> <<>>]

\* One row read by loadApplications; `now` stands for new Date() at load time.
DecodeRow(row, now) ==
  [f \in Fields |->
     IF f = "url" THEN (IF Truthy(row.url) THEN Val(row.url) ELSE <<>>)
     ELSE IF f = "status"
       THEN (IF row.status = None THEN "TODO" ELSE Val(row.status))
     ELSE IF f = "priority"
       THEN (IF row.priority = None THEN "MEDIUM" ELSE Val(row.priority))
     ELSE IF f \in {"createdAt", "updatedAt"}
       THEN (IF row[f] = None THEN now ELSE Val(row[f]))
     ELSE IF f = "id" THEN Val(row.id)
     ELSE IF f \in OptionalText THEN (IF Truthy(row[f]) THEN row[f] ELSE None)
     ELSE row[f]]

RECURSIVE DecodeRows(_, _)
DecodeRows(rows, now) ==
  IF rows = <<>> THEN <<>>
  ELSE IF Head(rows).id = None THEN DecodeRows(Tail(rows), now)
  ELSE <<DecodeRow(Head(rows), now)>> \o DecodeRows(Tail(rows), now)

\* ensureWorkbook + the row loop of loadApplications, on the buffer read: a
\* missing buffer and one ExcelJS cannot load both give a new, empty workbook.
ParseBuffer(buffer, now) ==
  IF buffer.kind = "xlsx" THEN DecodeRows(buffer.rows, now) ELSE <<>>

\* ------------------------------------------------------ applicationService
RECURSIVE Dedup(_, _)
Dedup(applications, seen) ==
  IF applications = <<>> THEN <<>>
  ELSE LET app == Head(applications)
           n == normalizeUrlForComparison(app.url)
       IN IF Trim(app.url) = <<>>
            THEN <<app>> \o Dedup(Tail(applications), seen)
          ELSE IF n \in seen THEN Dedup(Tail(applications), seen)
          ELSE <<app>> \o Dedup(Tail(applications), seen \cup {n})

Reverse(s) == [i \in 1..Len(s) |-> s[Len(s) + 1 - i]]

\* A deduplication that keeps the last record of each URL.
deduplicateKeepingLast(applications) ==
  Reverse(Dedup(Reverse(applications), {}))

deduplicateApplications(applications) == Dedup(applications, {})

createDummyApplication(id, now) ==
  [id |-> id,
   url |-> <<"https://", "e">>,
   linkTitle |-> Some(<<"x">>),
   company |-> Some(<<"x">>),
   roleTitle |-> Some(<<"x">>),
   location |-> Some(<<"x">>),
   status |-> DEFAULT_STATUS,
   priority |-> DEFAULT_PRIORITY,
   notes |-> Some(<<"x">>),
   appliedDate |-> None,
   interviewDate |-> None,
   offerDate |-> None,
   rejectedDate |-> None,
   createdAt |-> now,
   updatedAt |-> now]

\* The positions of the token c in s.
Positions(s, c) == {i \in 1..Len(s) : s[i] = c}

\* link.match(/https?:\/\/[^\s]+/): the first scheme followed by a character
\* that is not white space, up to the next white space.
MatchStart(link) ==
  LET starts == {i \in 1..Len(link) - 1 :
                   link[i] \in Schemes /\ link[i + 1] # " "}
  IN IF starts = {} THEN 0 ELSE CHOOSE i \in starts : \A j \in starts : i <= j

MatchEnd(link, i) ==
  LET spaces == {j \in i + 1..Len(link) : link[j] = " "}
  IN IF spaces = {} THEN Len(link)
     ELSE (CHOOSE j \in spaces : \A k \in spaces : j <= k) - 1

TitleOf(s) == IF Trim(s) = <<>> THEN None ELSE Some(Trim(s))

\* The "Title|URL" / free text parsing of one entry of the batch:
\* [skip, url, linkTitle], url before normalization.
ParseLink(link) ==
  LET bars == Positions(link, "|")
      bar == CHOOSE i \in bars : TRUE
      part0 == Trim(SubSeq(link, 1, bar - 1))
      part1 == Trim(SubSeq(link, bar + 1, Len(link)))
      m == MatchStart(link)
  IN IF Trim(link) = <<>>
       THEN [skip |-> TRUE, url |-> <<>>, linkTitle |-> None]
     ELSE IF Cardinality(bars) = 1 /\ StartsWithHttp(part1)
       THEN [skip |-> FALSE, url |-> part1, linkTitle |-> TitleOf(part0)]
     ELSE IF Positions(link, "https://") \cup Positions(link, "http://") # {}
             /\ m # 0
       THEN [skip |-> FALSE, url |-> SubSeq(link, m, MatchEnd(link, m)),
             linkTitle |-> TitleOf(SubSeq(link, 1, m - 1))]
     ELSE [skip |-> Trim(link) = <<>>, url |-> link, linkTitle |-> None]

\* A duplicate check that compares the stored URLs as they are written.
IsDuplicateRaw(apps, normalizedUrl, except) ==
  \E i \in 1..Len(apps) :
     /\ i # except
     /\ Trim(apps[i].url) # <<>>
     /\ apps[i].url = normalizedUrl

IsDuplicate(apps, normalizedUrl, except) ==
  \E i \in 1..Len(apps) :
     /\ i # except
     /\ Trim(apps[i].url) # <<>>
     /\ normalizeUrlForComparison(apps[i].url) = normalizedUrl

NewApplication(id, url, linkTitle, now) ==
  [id |-> id,
   url |-> url,
   linkTitle |-> linkTitle,
   company |-> None,
   roleTitle |-> None,
   location |-> None,
   status |-> DEFAULT_STATUS,
   priority |-> DEFAULT_PRIORITY,
   notes |-> None,
   appliedDate |-> None,
   interviewDate |-> None,
   offerDate |-> None,
   rejectedDate |-> None,
   createdAt |-> now,
   updatedAt |-> now]

\* The loop of createApplicationsFromLinks: the records created for `links`,
\* in order, with ids firstId, firstId + 1, ...
RECURSIVE NewApps(_, _, _, _)
NewApps(links, existingApps, now, firstId) ==
  IF links = <<>> THEN <<>>
  ELSE LET parsed == ParseLink(Head(links))
           normalizedUrl == normalizeUrlForComparison(parsed.url)
       IN IF parsed.skip \/ IsDuplicate(existingApps, normalizedUrl, 0)
            THEN NewApps(Tail(links), existingApps, now, firstId)
          ELSE <<NewApplication(firstId, normalizedUrl, parsed.linkTitle, now)>>
               \o NewApps(Tail(links), existingApps, now, firstId + 1)

\* A findIndex whose "no such record" falls on the last record.
IndexOfIdOrLast(applications, id) ==
  LET hits == {i \in 1..Len(applications) : applications[i].id = id}
  IN IF hits = {} THEN Len(applications)
     ELSE CHOOSE i \in hits : \A j \in hits : i <= j

IndexOfId(applications, id) ==
  LET hits == {i \in 1..Len(applications) : applications[i].id = id}
  IN IF hits = {} THEN 0 ELSE CHOOSE i \in hits : \A j \in hits : i <= j

\* {...app, ...updates, updatedAt: now}
Merge(app, updates, now) ==
  [f \in Fields |->
     IF f = "updatedAt" THEN now
     ELSE IF f \in DOMAIN updates THEN updates[f]
     ELSE app[f]]

DateOfStatus(status) ==
  IF status = "APPLIED" THEN "appliedDate"
  ELSE IF status = "INTERVIEW" THEN "interviewDate"
  ELSE IF status = "OFFER" THEN "offerDate"
  ELSE IF status = "REJECTED" THEN "rejectedDate"
  ELSE "none"

\* The auto-set without its `!app.appliedDate` guards: every change of status
\* stamps the date again.
StampDatesAlways(app, updates, merged, now) ==
  IF /\ "status" \in DOMAIN updates
     /\ updates.status # ""
     /\ updates.status # app.status
     /\ DateOfStatus(updates.status) # "none"
  THEN [merged EXCEPT ![DateOfStatus(updates.status)] = Some(now)]
  ELSE merged

\* No auto-set at all: the record is the merge.
StampDatesNever(app, updates, merged, now) == merged

\* The auto-set of dates on a status change.
StampDates(app, updates, merged, now) ==
  IF /\ "status" \in DOMAIN updates
     /\ updates.status # ""
     /\ updates.status # app.status
     /\ DateOfStatus(updates.status) # "none"
     /\ app[DateOfStatus(updates.status)] = None
  THEN [merged EXCEPT ![DateOfStatus(updates.status)] = Some(now)]
  ELSE merged

ChecksUrl(updates) == "url" \in DOMAIN updates /\ Trim(updates.url) # <<>>

\* The record updateApplication builds for applications[index].
UpdatedApp(app, updates, now) ==
  LET stamped == StampDates(app, updates, Merge(app, updates, now), now)
  IN IF ChecksUrl(updates)
       THEN [stamped EXCEPT !.url = normalizeUrlForComparison(updates.url)]
     ELSE stamped

\* A removal that also drops the records before the one removed.
RECURSIVE WithoutUpToId(_, _)
WithoutUpToId(applications, id) ==
  IF applications = <<>> THEN <<>>
  ELSE IF Head(applications).id = id THEN Tail(applications)
  ELSE WithoutUpToId(Tail(applications), id)

\* hardDeleteApplication's filter.
RECURSIVE WithoutId(_, _)
WithoutId(applications, id) ==
  IF applications = <<>> THEN <<>>
  ELSE IF Head(applications).id = id THEN WithoutId(Tail(applications), id)
  ELSE <<Head(applications)>> \o WithoutId(Tail(applications), id)

\* getAllApplications' status filter ("" is no filter).
RECURSIVE FilterStatus(_, _)
FilterStatus(applications, status) ==
  IF applications = <<>> THEN <<>>
  ELSE IF status = "" \/ Head(applications).status = status
    THEN <<Head(applications)>> \o FilterStatus(Tail(applications), status)
  ELSE FilterStatus(Tail(applications), status)

\* ------------------------------------------------------------------ state
VARIABLES
  isVercel,      \* process.env.VERCEL: the remote blob store is selected
  hasBlobToken,  \* BLOB_READ_WRITE_TOKEN is set and @vercel/blob imports
  blob,          \* the stored applications.xlsx (file or blob)
  clock,         \* the time of the last request
  nextId,        \* the next fresh uuid
  req            \* per request slot: its position and its local variables

vars == <<isVercel, hasBlobToken, blob, clock, nextId, req>>

\* The trailing window of recentApplications, in clock ticks.
SevenDays == 2

\* getApplicationStats' counts over the list getAllApplications gave it.
StatsOf(applications, now) ==
  [total |-> Len(applications),
   byStatus |->
     [s \in Statuses |->
        Cardinality({i \in 1..Len(applications) : applications[i].status = s})],
   byPriority |->
     [q \in Priorities |->
        Cardinality({i \in 1..Len(applications) : applications[i].priority = q})],
   recentApplications |->
     Cardinality({i \in 1..Len(applications) :
                    applications[i].createdAt >= now - SevenDays})]

emptyStats ==
  [total |-> 0,
   byStatus |-> [s \in Statuses |-> 0],
   byPriority |-> [q \in Priorities |-> 0],
   recentApplications |-> 0]

Idle ==
  [pc |-> "idle", op |-> "none", id |-> 0, updates |-> <<>>, links |-> <<>>,
   filter |-> "", apps |-> <<>>, kept |-> <<>>, buffer |-> Absent,
   phase |-> "main", ret |-> <<>>, outcome |-> "none", writes |-> 0,
   saveFailed |-> FALSE, now |-> 0, blob0 |-> Absent,
   prev |-> [op |-> "none"], stats |-> emptyStats]

\* getExcelFileBuffer: without the token (or the module) the read finds nothing.
getExcelFileBuffer == IF isVercel /\ ~hasBlobToken THEN Absent ELSE blob

loadApplications(now) == ParseBuffer(getExcelFileBuffer, now)

CanCall(p) == req[p].pc \in {"idle", "done"} /\ clock < MaxClock

\* The slot of a request that starts now.  A request that only reads (a
\* listing, a load) keeps the request before it in prev.
Started(p, op) ==
  [Idle EXCEPT !.op = op, !.now = clock + 1, !.blob0 = blob,
               !.apps = loadApplications(clock + 1),
               !.prev = IF op \in {"list", "load"}
                          THEN [req[p] EXCEPT !.prev = [op |-> "none"]]
                          ELSE [op |-> "none"]]

Finish(r, outcome, ret) ==
  [r EXCEPT !.pc = "done", !.outcome = outcome, !.ret = ret]

\* getAllApplications returns applications: to its caller, or to
\* getApplicationStats, which returns the counts.
Listed(r, applications) ==
  IF r.op = "stats"
    THEN [Finish(r, "ok", applications) EXCEPT
            !.stats = StatsOf(applications, r.now)]
  ELSE Finish(r, "ok", applications)

ToSave(r, applications) ==
  [r EXCEPT !.pc = "save", !.buffer = Workbook(EncodeRows(applications))]

\* ----------------------------------------------------------------- inputs
MissingId == 0

R1 == NewApplication(1, <<"https://", "a">>, None, 0)
R2 == NewApplication(2, <<"https://", "A", "/">>, Some(<<"T">>), 0)
RApplied == [R1 EXCEPT !.status = "APPLIED", !.appliedDate = Some(0)]

\* A row of an older or foreign workbook: no status, no dates, a priority
\* outside the enum.
LegacyRow ==
  [f \in Fields |->
     IF f = "id" THEN Some(1)
     ELSE IF f = "url" THEN Some(<<"https://", "b">>)
     ELSE IF f = "priority" THEN Some("URGENT")
     ELSE None]

InitialBlobs ==
  {Absent, Workbook(EncodeRows(<<R1>>)), Workbook(EncodeRows(<<R1, R2>>))}

RestoreInputs ==
  {Garbage, Workbook(<<>>), Workbook(EncodeRows(<<R1, R2>>)),
   Workbook(<<LegacyRow>>)}

SaveInputs ==
  {<<>>, <<R1>>, <<[R1 EXCEPT !.notes = Some(<<>>)]>>,
   <<[R1 EXCEPT !.url = <<>>], R2>>}

\* The batches of the service specification: the empty one, one entry, a URL
\* twice in one batch, a stored URL again, text without a URL.
LinkBatches ==
  {<<>>,
   <<<<"https://", "a">>>>,
   <<<<"https://", "a">>, <<"T", "|", "https://", "a", "/">>>>,
   <<<<"T", "|", "https://", "a", "/">>, <<"b">>>>,
   <<<<"T", " ", "https://", "b">>>>,
   <<<<"T", " ", "T">>, <<"b">>>>,
   <<<<" ">>, <<"https://", "a">>>>}

\* Batches of one entry: a URL, free text around a URL.
SingleLinks ==
  {<<<<"https://", "a">>>>,
   <<<<"T", " ", "https://", "b">>>>}

StatusPatches ==
  {[status |-> "TODO"], [status |-> "APPLIED"], [status |-> "INTERVIEW"],
   [status |-> "OFFER"], [status |-> "REJECTED"], [status |-> "ARCHIVED"]}

UrlPatches ==
  {[url |-> <<"https://", "A", "/">>],
   [url |-> <<"b">>, status |-> "APPLIED", notes |-> Some(<<"n">>)],
   [notes |-> Some(<<>>)]}

\* Two patches of different fields, for two requests on one record.
ConcurrentPatches == {[status |-> "APPLIED"], [priority |-> "HIGH"]}

FieldPatches ==
  {[priority |-> "HIGH"],
   [appliedDate |-> Some(0)],
   [id |-> 2],
   [createdAt |-> MaxClock + 1]}

Filters == {"", "APPLIED"}

\* -------------------------------------------------------------- operations
Init ==
  /\ isVercel \in BOOLEAN
  /\ hasBlobToken \in BOOLEAN
  /\ ~isVercel => ~hasBlobToken
  /\ blob \in InitialBlobs
  /\ isVercel /\ ~hasBlobToken => blob = Absent
  /\ clock = 0
  /\ nextId = 3
  /\ req = [p \in Procs |-> Idle]

Config == <<isVercel, hasBlobToken>>

\* getAllApplications(filter) up to its first save, called for op.
ListStart(p, op, filter) ==
  LET r == [Started(p, op) EXCEPT !.filter = filter]
      kept == deduplicateApplications(r.apps)
      dummyApp == createDummyApplication(nextId, r.now)
  IN /\ IF Len(kept) < Len(r.apps)
          THEN /\ req' = [req EXCEPT ![p] =
                     ToSave([r EXCEPT !.kept = kept, !.phase = "heal"], kept)]
               /\ nextId' = nextId
        ELSE IF Len(kept) = 0
          THEN /\ req' = [req EXCEPT ![p] =
                     ToSave([r EXCEPT !.phase = "seed", !.ret = <<dummyApp>>],
                            <<dummyApp>>)]
               /\ nextId' = nextId + 1
        ELSE /\ req' = [req EXCEPT ![p] =
                   Listed(r, FilterStatus(kept, filter))]
             /\ nextId' = nextId
     /\ clock' = clock + 1
     /\ UNCHANGED <<Config, blob>>

\* getAllApplications up to its first save.
CallList(p) ==
  /\ CanCall(p)
  /\ \E filter \in Filters : ListStart(p, "list", filter)

\* getApplicationStats up to the first save of its getAllApplications().
CallStats(p) ==
  /\ CanCall(p)
  /\ ListStart(p, "stats", "")

\* createApplicationsFromLinks up to its save.
CallIngest(p, batches) ==
  /\ CanCall(p)
  /\ \E links \in batches :
       LET r == [Started(p, "ingest") EXCEPT !.links = links]
           newApps == NewApps(links, r.apps, r.now, nextId)
       IN /\ Len(r.apps) + Len(newApps) <= MaxApps
          /\ IF links = <<>>
               THEN /\ req' = [req EXCEPT ![p] =
                          Finish([r EXCEPT !.apps = <<>>], "InvalidInput", <<>>)]
                    /\ nextId' = nextId
             ELSE IF newApps # <<>>
               THEN /\ req' = [req EXCEPT ![p] =
                          ToSave([r EXCEPT !.ret = newApps], r.apps \o newApps)]
                    /\ nextId' = nextId + Len(newApps)
             ELSE /\ req' = [req EXCEPT ![p] = Finish(r, "ok", <<>>)]
                  /\ nextId' = nextId
  /\ clock' = clock + 1
  /\ UNCHANGED <<Config, blob>>

\* updateApplication up to its save; softDeleteApplication and clearLink call
\* it with their own updates.
UpdateStart(p, op, id, updates) ==
  LET r == [Started(p, op) EXCEPT !.id = id, !.updates = updates]
      index == IndexOfId(r.apps, id)
      updatedApp == UpdatedApp(r.apps[index], updates, r.now)
  IN /\ req' = [req EXCEPT ![p] =
           IF index = 0 THEN Finish(r, "NotFound", <<>>)
           ELSE IF ChecksUrl(updates)
                   /\ IsDuplicate(r.apps, normalizeUrlForComparison(updates.url),
                                  index)
             THEN Finish(r, "DuplicateUrl", <<>>)
           ELSE ToSave([r EXCEPT !.ret = <<updatedApp>>],
                       [r.apps EXCEPT ![index] = updatedApp])]
     /\ clock' = clock + 1
     /\ UNCHANGED <<Config, blob, nextId>>

\* The ids a caller may name: those of the stored records, those named by
\* the requests before it or beside it, and one that no record has.
TargetIds == {loadApplications(0)[i].id : i \in 1..Len(loadApplications(0))}
             \cup {req[q].id : q \in Procs}
             \cup {MissingId}

CallUpdate(p, patches) ==
  /\ CanCall(p)
  /\ \E id \in TargetIds, updates \in patches :
       UpdateStart(p, "update", id, updates)

\* An archive that removes the record from the list it saves.
CallArchiveRemoving(p) ==
  /\ CanCall(p)
  /\ \E id \in TargetIds :
       LET r == [Started(p, "archive") EXCEPT
                   !.id = id, !.updates = [status |-> "ARCHIVED"]]
           index == IndexOfId(r.apps, id)
           archived == UpdatedApp(r.apps[index], r.updates, r.now)
       IN req' = [req EXCEPT ![p] =
            IF index = 0 THEN Finish(r, "NotFound", <<>>)
            ELSE ToSave([r EXCEPT !.ret = <<archived>>], WithoutId(r.apps, id))]
  /\ clock' = clock + 1
  /\ UNCHANGED <<Config, blob, nextId>>

CallArchive(p) ==
  /\ CanCall(p)
  /\ \E id \in TargetIds : UpdateStart(p, "archive", id, [status |-> "ARCHIVED"])

CallClear(p) ==
  /\ CanCall(p)
  /\ \E id \in TargetIds :
       UpdateStart(p, "clear", id, [url |-> <<>>, linkTitle |-> None])

\* hardDeleteApplication up to its save.
CallDelete(p) ==
  /\ CanCall(p)
  /\ \E id \in TargetIds :
       LET r == [Started(p, "delete") EXCEPT !.id = id]
           filtered == WithoutId(r.apps, id)
       IN req' = [req EXCEPT ![p] =
            IF Len(filtered) = Len(r.apps) THEN Finish(r, "NotFound", <<>>)
            ELSE ToSave(r, filtered)]
  /\ clock' = clock + 1
  /\ UNCHANGED <<Config, blob, nextId>>

\* restoreExcelFile up to its write of the uploaded bytes.
CallRestore(p, uploads) ==
  /\ CanCall(p)
  /\ \E bytes \in uploads :
       req' = [req EXCEPT ![p] =
         [Started(p, "restore") EXCEPT !.apps = <<>>, !.pc = "save",
                                       !.buffer = bytes]]
  /\ clock' = clock + 1
  /\ UNCHANGED <<Config, blob, nextId>>

\* A loadApplications that stores the new workbook ensureWorkbook creates when
\* it finds no file or cannot load the one it finds.
CallLoadRepairing(p) ==
  /\ CanCall(p)
  /\ LET r == Started(p, "load")
     IN /\ req' = [req EXCEPT ![p] = Finish(r, "ok", r.apps)]
        /\ blob' = IF getExcelFileBuffer.kind = "xlsx" THEN blob
                   ELSE Workbook(<<>>)
  /\ clock' = clock + 1
  /\ UNCHANGED <<Config, nextId>>

\* loadApplications called on its own.
CallLoad(p) ==
  /\ CanCall(p)
  /\ LET r == Started(p, "load")
     IN req' = [req EXCEPT ![p] = Finish(r, "ok", r.apps)]
  /\ clock' = clock + 1
  /\ UNCHANGED <<Config, blob, nextId>>

\* saveApplications called on its own.
CallSaveAll(p, lists) ==
  /\ CanCall(p)
  /\ \E records \in lists :
       req' = [req EXCEPT ![p] =
         ToSave([Started(p, "saveAll") EXCEPT !.apps = records], records)]
  /\ clock' = clock + 1
  /\ UNCHANGED <<Config, blob, nextId>>

\* What the request does once its saveApplications returned (ok) or threw.
AfterSave(r0, ok) ==
  LET r == [r0 EXCEPT !.saveFailed = @ \/ ~ok]
      dummyApp == createDummyApplication(nextId, r.now)
  IN IF r.op \in {"list", "stats"} /\ r.phase = "heal"
       THEN IF ok THEN Listed(r, FilterStatus(r.kept, r.filter))
            ELSE ToSave([r EXCEPT !.phase = "recover", !.ret = <<dummyApp>>],
                        <<dummyApp>>)
     ELSE IF r.op \in {"list", "stats"} /\ r.phase = "seed"
       THEN IF ok THEN Listed(r, r.ret)
            ELSE Listed(r, <<dummyApp>>)
     ELSE IF r.op \in {"list", "stats"} THEN Listed(r, r.ret)
     ELSE IF r.op = "restore"
       THEN IF ok THEN [r EXCEPT !.pc = "reload"]
            ELSE Finish(r, "PersistenceError", <<>>)
     ELSE IF ok THEN Finish(r, "ok", r.ret)
     ELSE Finish(r, "PersistenceError", <<>>)

IdAfterSave(r, ok) ==
  IF r.op \in {"list", "stats"} /\ r.phase \in {"heal", "seed"} /\ ~ok
    THEN nextId + 1 ELSE nextId

Called(r) == [r EXCEPT !.writes = @ + 1]

\* saveExcelFileBuffer on the local filesystem: fs.writeFileSync writes the
\* file, or throws (the file is then taken to be as it was).
SaveLocal(p) ==
  /\ req[p].pc = "save"
  /\ ~isVercel
  /\ \E ok \in BOOLEAN :
       /\ blob' = IF ok THEN req[p].buffer ELSE blob
       /\ req' = [req EXCEPT ![p] = AfterSave(Called(req[p]), ok)]
       /\ nextId' = IdAfterSave(req[p], ok)
  /\ UNCHANGED <<Config, clock>>

\* saveExcelFileBuffer on Vercel without the token or the module: it logs
\* and returns.
SaveNoBlob(p) ==
  /\ req[p].pc = "save"
  /\ isVercel /\ ~hasBlobToken
  /\ req' = [req EXCEPT ![p] = AfterSave(Called(req[p]), TRUE)]
  /\ UNCHANGED <<Config, blob, clock, nextId>>

\* saveExcelFileBuffer on Vercel: list and delete the existing blob; a
\* failure of either is logged and the upload follows anyway.
SaveDelete(p) ==
  /\ req[p].pc = "save"
  /\ isVercel /\ hasBlobToken
  /\ \E deleted \in BOOLEAN : blob' = IF deleted THEN Absent ELSE blob
  /\ req' = [req EXCEPT ![p] = [Called(req[p]) EXCEPT !.pc = "put"]]
  /\ UNCHANGED <<Config, clock, nextId>>

\* saveExcelFileBuffer on Vercel: put uploads the new blob or throws.
SavePut(p) ==
  /\ req[p].pc = "put"
  /\ \E ok \in BOOLEAN :
       /\ blob' = IF ok THEN req[p].buffer ELSE blob
       /\ req' = [req EXCEPT ![p] = AfterSave(req[p], ok)]
       /\ nextId' = IdAfterSave(req[p], ok)
  /\ UNCHANGED <<Config, clock>>

\* restoreExcelFile after its write: loadApplications.
Reload(p) ==
  /\ req[p].pc = "reload"
  /\ req' = [req EXCEPT ![p] =
       Finish(req[p], "ok", loadApplications(req[p].now))]
  /\ UNCHANGED <<Config, blob, clock, nextId>>

\* The backend steps of a request that is saving.
Backend(p) ==
  \/ SaveLocal(p)
  \/ SaveNoBlob(p)
  \/ SaveDelete(p)
  \/ SavePut(p)

\* One request at a time: the application service.
Next ==
  \/ CallList(1)
  \/ CallIngest(1, LinkBatches)
  \/ CallUpdate(1, UrlPatches)
  \/ CallClear(1)
  \/ CallDelete(1)
  \/ CallLoad(1)
  \/ Backend(1)

Spec == Init /\ [][Next]_vars

\* One request at a time: status changes of one stored record.
InitStatus ==
  /\ isVercel \in BOOLEAN
  /\ hasBlobToken \in BOOLEAN
  /\ ~isVercel => ~hasBlobToken
  /\ blob \in {Absent, Workbook(EncodeRows(<<R1>>)),
               Workbook(EncodeRows(<<RApplied>>))}
  /\ isVercel /\ ~hasBlobToken => blob = Absent
  /\ clock = 0
  /\ nextId = 3
  /\ req = [p \in Procs |-> Idle]

NextStatus ==
  \/ CallList(1)
  \/ CallUpdate(1, StatusPatches \cup FieldPatches)
  \/ CallArchive(1)
  \/ Backend(1)

SpecStatus == InitStatus /\ [][NextStatus]_vars

\* One request at a time: the record store under the listing.
NextStore ==
  \/ CallList(1)
  \/ CallSaveAll(1, SaveInputs)
  \/ CallRestore(1, RestoreInputs)
  \/ CallLoad(1)
  \/ Backend(1)
  \/ Reload(1)

SpecStore == Init /\ [][NextStore]_vars

\* One request at a time: every operation on records, with patches of any
\* field.
NextRecords ==
  \/ CallList(1)
  \/ CallIngest(1, SingleLinks)
  \/ CallUpdate(1, FieldPatches)
  \/ CallArchive(1)
  \/ CallClear(1)
  \/ CallDelete(1)
  \/ Backend(1)

SpecRecords == Init /\ [][NextRecords]_vars

\* Two requests at a time: the load of one may fall between the load and the
\* save of the other, and so may its backend steps.
NextConcurrent ==
  \/ \E p \in Procs : CallUpdate(p, ConcurrentPatches)
  \/ \E p \in Procs : SaveLocal(p)
  \/ \E p \in Procs : SaveDelete(p)
  \/ \E p \in Procs : SavePut(p)

SpecConcurrent == Init /\ [][NextConcurrent]_vars

\* Two requests at a time: a delete, then a load, while a request that
\* updates, archives or clears a record is between its load and its save.
NextRace ==
  \/ CallDelete(1)
  \/ CallLoad(1)
  \/ CallUpdate(2, ConcurrentPatches)
  \/ CallArchive(2)
  \/ CallClear(2)
  \/ \E p \in Procs : SaveLocal(p)
  \/ \E p \in Procs : SaveDelete(p)
  \/ \E p \in Procs : SavePut(p)

SpecRace == Init /\ [][NextRace]_vars

\* One request at a time: the statistics over any stored file, one that is
\* no workbook included.
InitStats ==
  /\ isVercel \in BOOLEAN
  /\ hasBlobToken \in BOOLEAN
  /\ ~isVercel => ~hasBlobToken
  /\ blob \in InitialBlobs \cup {Garbage, Workbook(EncodeRows(<<RApplied>>))}
  /\ isVercel /\ ~hasBlobToken => blob = Absent
  /\ clock = 0
  /\ nextId = 3
  /\ req = [p \in Procs |-> Idle]

NextStats ==
  \/ CallStats(1)
  \/ CallUpdate(1, ConcurrentPatches)
  \/ Backend(1)

SpecStats == InitStats /\ [][NextStats]_vars

\* ------------------------------------------------------------------ claims
\* The records a read of the stored file decodes to.
StoredApps == ParseBuffer(blob, clock)

\* The backend read found nothing when the request r started.
ReadAbsent(r) == r.blob0.kind = "absent" \/ (isVercel /\ ~hasBlobToken)

UniqueUrls(apps) ==
  \A i, j \in 1..Len(apps) :
     i < j /\ apps[i].url # <<>> /\ apps[j].url # <<>>
       => normalizeUrlForComparison(apps[i].url)
            # normalizeUrlForComparison(apps[j].url)

\* C1: after an ingestLinks or an updateApplication that succeeded on a store
\* whose non-empty URLs were pairwise different once normalized, the stored
\* records' non-empty URLs are still pairwise different once normalized.
C1_UrlUniqueness ==
  LET r == req[1]
  IN r.pc = "done" /\ r.op \in {"ingest", "update"} /\ r.outcome = "ok"
     /\ UniqueUrls(r.apps)
       => UniqueUrls(StoredApps)

\* C2: an updateApplication (or archive) whose patch names no derived date
\* leaves every derived date that was already set as it was, in the record it
\* returns and in the record it writes, whatever status it leaves or enters.
C2_DateRatchet ==
  LET r == req[1]
      index == IndexOfId(r.apps, r.id)
  IN r.op \in {"update", "archive"} /\ r.ret # <<>>
     /\ DOMAIN r.updates \cap DerivedDates = {}
       => \A d \in DerivedDates :
            r.apps[index][d] # None
              => /\ r.ret[1][d] = r.apps[index][d]
                 /\ ParseBuffer(r.buffer, r.now)[index][d] = r.apps[index][d]

\* C2 witness: a record that was APPLIED, then INTERVIEW, then APPLIED again
\* enters INTERVIEW a second time, at a later instant than the first.
C2_Reentered ==
  LET r == req[1]
      index == IndexOfId(r.apps, r.id)
  IN /\ r.pc = "done" /\ r.op = "update" /\ r.outcome = "ok"
     /\ r.updates = [status |-> "INTERVIEW"]
     /\ r.apps[index].status = "APPLIED"
     /\ r.apps[index].appliedDate # None
     /\ r.apps[index].interviewDate # None
     /\ r.apps[index].interviewDate # Some(r.now)
     /\ r.ret[1].status = "INTERVIEW"
     /\ StoredApps = r.ret

\* The first entry of the batch that parses to the normalized URL n.
FirstEntryFor(links, n) ==
  LET hits == {k \in 1..Len(links) :
                 /\ ~ParseLink(links[k]).skip
                 /\ normalizeUrlForComparison(ParseLink(links[k]).url) = n}
  IN CHOOSE k \in hits : \A m \in hits : k <= m

\* C3: the records one ingestLinks batch creates have pairwise different
\* normalized URLs, and each carries the title of the first entry of the batch
\* with its URL.
C3_BatchDuplicatesSkipped ==
  LET r == req[1]
  IN r.pc = "done" /\ r.op = "ingest" /\ r.outcome = "ok"
       => /\ UniqueUrls(r.ret)
          /\ \A i \in 1..Len(r.ret) :
               r.ret[i].linkTitle =
                 ParseLink(r.links[FirstEntryFor(r.links,
                   normalizeUrlForComparison(r.ret[i].url))]).linkTitle

\* C4: a loadAll that follows a saveAll(records) that succeeded returns
\* records, field by field and in order.
C4_RoundTrip ==
  LET r == req[1]
  IN r.pc = "done" /\ r.op = "load"
     /\ r.prev.op = "saveAll" /\ r.prev.outcome = "ok"
       => r.ret = r.prev.apps

\* C5: a listApplications that follows a listApplications with the same filter
\* returns what the first returned and leaves the store as it found it.
C5_ListIdempotent ==
  LET r == req[1]
  IN r.pc = "done" /\ r.op = "list"
     /\ r.prev.op = "list" /\ r.prev.filter = r.filter
       => r.ret = r.prev.ret /\ blob = r.blob0

\* C6: a listApplications whose read finds nothing returns one seeded record
\* (TODO, MEDIUM) after exactly one backend write, and the loadAll that
\* follows returns that record.
C6_Bootstrap ==
  LET r == req[1]
  IN /\ r.pc = "done" /\ r.op = "list" /\ ReadAbsent(r)
          => /\ Len(r.ret) = 1
             /\ r.ret[1].status = "TODO"
             /\ r.ret[1].priority = "MEDIUM"
             /\ r.writes = 1
     /\ r.pc = "done" /\ r.op = "load"
        /\ r.prev.op = "list" /\ ReadAbsent(r.prev)
          => r.ret = r.prev.ret

\* C7: a request one of whose saveAll calls failed reports a failure.
C7_WriteErrorsSurface ==
  LET r == req[1]
  IN r.pc = "done" /\ r.saveFailed => r.outcome # "ok"

\* C8: from the start of a backend write that replaces existing content on, a
\* read finds the complete previous content or the complete new content.
C8_AtomicWrite ==
  LET r == req[1]
  IN r.writes > 0 /\ r.blob0.kind # "absent"
       => getExcelFileBuffer \in {r.blob0, r.buffer}

\* C9: with the remote store selected and not configured, a read finds
\* nothing, and a request that called the backend write ends with a
\* persistence failure.
C9_UnconfiguredRemote ==
  LET r == req[1]
  IN isVercel /\ ~hasBlobToken
       => /\ getExcelFileBuffer = Absent
          /\ r.pc = "done" /\ r.writes > 0
               => r.saveFailed /\ r.outcome = "PersistenceError"

\* C10: restoreFrom(bytes) fails and leaves the stored blob as it was when
\* the bytes are no well-formed table; otherwise a successful restore stores
\* the bytes as they are and returns what a loadAll then returns.
C10_RestoreValidates ==
  LET r == req[1]
  IN r.pc = "done" /\ r.op = "restore"
       => IF r.buffer.kind # "xlsx"
            THEN r.outcome # "ok" /\ blob = r.blob0
          ELSE r.outcome = "ok"
                 => blob = r.buffer /\ r.ret = loadApplications(clock)

\* C11: loadAll always returns normally, calls no backend write and leaves the
\* stored blob as it was; it returns the empty list when the blob is absent
\* and when the blob is no workbook.
C11_LoadNeverWrites ==
  LET r == req[1]
  IN r.pc = "done" /\ r.op = "load"
       => /\ r.outcome = "ok"
          /\ r.writes = 0
          /\ blob = r.blob0
          /\ r.blob0.kind # "xlsx" => r.ret = <<>>

\* C11 witness: a loadAll found a stored blob that is no workbook.
C11_CorruptRead ==
  LET r == req[1]
  IN /\ r.pc = "done" /\ r.op = "load"
     /\ r.blob0 = Garbage
     /\ r.ret = <<>>
     /\ blob = Garbage

\* The request r names an id that no record it loaded has.
NoSuchId(r) == \A i \in 1..Len(r.apps) : r.apps[i].id # r.id

\* C12: updateApplication, archiveApplication, clearLink and deleteApplication
\* called with an id no stored record has fail with NotFound, call no backend
\* write and leave the stored blob as it was.
C12_NotFoundUntouched ==
  LET r == req[1]
  IN r.pc = "done" /\ r.op \in {"update", "archive", "clear", "delete"}
     /\ NoSuchId(r)
       => r.outcome = "NotFound" /\ r.writes = 0 /\ blob = r.blob0

\* C12 witness: deleteApplication of a missing id on a store that has records.
C12_MissingDelete ==
  LET r == req[1]
  IN /\ r.pc = "done" /\ r.op = "delete" /\ r.id = MissingId
     /\ r.apps # <<>> /\ NoSuchId(r)
     /\ r.outcome = "NotFound"
     /\ StoredApps = r.apps

\* The patch url of the update r collides with a record other than its target.
Collides(r) ==
  LET index == IndexOfId(r.apps, r.id)
  IN \E j \in 1..Len(r.apps) :
       /\ j # index
       /\ normalizeUrlForComparison(r.apps[j].url) # <<>>
       /\ normalizeUrlForComparison(r.apps[j].url)
            = normalizeUrlForComparison(r.updates.url)

\* C13: an updateApplication of a stored record whose patch url, normalized,
\* is the normalized url of another stored record fails with DuplicateUrl,
\* calls no backend write and leaves the stored blob as it was; a patch url
\* that collides with no other record (its own included) is no DuplicateUrl.
C13_DuplicateUrlRejects ==
  LET r == req[1]
  IN r.pc = "done" /\ r.op = "update" /\ ~NoSuchId(r)
     /\ "url" \in DOMAIN r.updates /\ r.updates.url # <<>>
       => IF Collides(r)
            THEN r.outcome = "DuplicateUrl" /\ r.writes = 0 /\ blob = r.blob0
          ELSE r.outcome # "DuplicateUrl"

\* C13 witness: a patch of url, status and notes is rejected for its url, and
\* the target keeps its url, status, notes and updatedAt.
C13_PatchRejected ==
  LET r == req[1]
      index == IndexOfId(r.apps, r.id)
  IN /\ r.pc = "done" /\ r.op = "update" /\ ~NoSuchId(r)
     /\ DOMAIN r.updates = {"url", "status", "notes"}
     /\ Collides(r)
     /\ r.outcome = "DuplicateUrl"
     /\ StoredApps = r.apps
     /\ StoredApps[index].status = "TODO"
     /\ StoredApps[index].updatedAt < r.now

\* C13 witness: a patch url that is the target's own url, written differently.
C13_OwnUrl ==
  LET r == req[1]
      index == IndexOfId(r.apps, r.id)
  IN /\ r.pc = "done" /\ r.op = "update" /\ ~NoSuchId(r)
     /\ "url" \in DOMAIN r.updates
     /\ r.updates.url # r.apps[index].url
     /\ normalizeUrlForComparison(r.updates.url) = r.apps[index].url
     /\ ~Collides(r)
     /\ r.outcome = "ok"

\* The request in slot p is an updateApplication that is saving.
Saving(p) == req[p].op = "update" /\ req[p].pc \in {"save", "put"}

\* C14: of two concurrent updateApplication calls on one stored id, the one
\* that starts while the other is saving finds the record; a call that is
\* saving can always take its next backend step; when its save ends it
\* succeeds unless its own backend write failed, and the stored blob is then
\* the one it wrote; the blob changes in backend steps only.  So both calls
\* succeed and the blob that remains is the one of the save that ran last.
C14_LastWriterWins ==
  /\ [](\A p, q \in Procs :
          (/\ p # q /\ Saving(q) /\ ~NoSuchId(req[q])
           /\ req[p].op = "update" /\ req[p].pc = "done"
           /\ req[p].id = req[q].id /\ req[p].now > req[q].now)
            => req[p].outcome # "NotFound")
  /\ [](\A p \in Procs : Saving(p) => ENABLED Backend(p))
  /\ [][\A p \in Procs :
          Saving(p) /\ req'[p].pc = "done"
            => IF req'[p].saveFailed
                 THEN req'[p].outcome = "PersistenceError"
               ELSE req'[p].outcome = "ok" /\ blob' = req[p].buffer]_vars
  /\ [][blob' # blob
          => \E p \in Procs :
               req[p].pc \in {"save", "put"} /\ req'[p] # req[p]]_vars

UniqueIds(apps) ==
  \A i, j \in 1..Len(apps) : i < j => apps[i].id # apps[j].id

\* C15: no two stored records have the same id, after any sequence of list,
\* ingest, update (with any patch), archive, clearLink and delete requests on
\* a store whose ids were pairwise different.
C15_IdUniqueness == UniqueIds(StoredApps)

\* C16: the record an updateApplication returns and the record it writes
\* have the id and the createdAt the stored record had, whatever the patch.
C16_IdCreatedAtImmutable ==
  LET r == req[1]
      index == IndexOfId(r.apps, r.id)
  IN r.pc = "done" /\ r.op = "update" /\ r.outcome = "ok"
       => \A f \in {"id", "createdAt"} :
            /\ r.ret[1][f] = r.apps[index][f]
            /\ ParseBuffer(r.buffer, r.now)[index][f] = r.apps[index][f]

ValidEnums(apps) ==
  \A i \in 1..Len(apps) :
     apps[i].status \in Statuses /\ apps[i].priority \in Priorities

\* C17: every record a read of the store gives, and every record loadAll, a
\* listing or a restore returns, has its status and its priority in the
\* enumerations.
C17_EnumValidity ==
  LET r == req[1]
  IN /\ ValidEnums(StoredApps)
     /\ r.pc = "done" /\ r.op \in {"load", "list", "restore"}
          => ValidEnums(r.ret)

Ordered(apps) ==
  \A i \in 1..Len(apps) : apps[i].updatedAt >= apps[i].createdAt

\* C18: every stored record and every record a request returns has
\* updatedAt >= createdAt.
C18_TimestampOrder ==
  LET r == req[1]
  IN /\ Ordered(StoredApps)
     /\ r.pc = "done" => Ordered(r.ret)

\* The date field that goes with a status.
DateFieldOf ==
  [s \in Statuses |->
     CASE s = "APPLIED" -> {"appliedDate"}
       [] s = "INTERVIEW" -> {"interviewDate"}
       [] s = "OFFER" -> {"offerDate"}
       [] s = "REJECTED" -> {"rejectedDate"}
       [] OTHER -> {}]

\* C19: updateApplication(id, {status: S}) with S other than the record's
\* status returns and stores a record with status S and updatedAt now; when S
\* has a date field and the record had none, that field is now; every other
\* derived date is as it was (all four for TODO and ARCHIVED).
C19_FirstTransitionStamps ==
  LET r == req[1]
      index == IndexOfId(r.apps, r.id)
      old == r.apps[index]
      S == r.updates.status
  IN r.pc = "done" /\ r.op = "update" /\ r.outcome = "ok"
     /\ DOMAIN r.updates = {"status"}
     /\ S # old.status
     /\ (\A d \in DateFieldOf[S] : old[d] = None)
       => /\ r.ret[1].status = S
          /\ r.ret[1].updatedAt = r.now
          /\ \A d \in DateFieldOf[S] : r.ret[1][d] = Some(r.now)
          /\ \A d \in DerivedDates \ DateFieldOf[S] : r.ret[1][d] = old[d]
          /\ StoredApps[index] = r.ret[1]

\* C19 witness: a record that was APPLIED enters INTERVIEW for the first
\* time and gets its interviewDate, its appliedDate staying.
C19_FirstInterview ==
  LET r == req[1]
      index == IndexOfId(r.apps, r.id)
  IN /\ r.pc = "done" /\ r.op = "update" /\ r.outcome = "ok"
     /\ r.updates = [status |-> "INTERVIEW"]
     /\ r.apps[index].status = "APPLIED"
     /\ r.apps[index].appliedDate # None
     /\ r.apps[index].interviewDate = None
     /\ StoredApps[index].interviewDate = Some(r.now)
     /\ StoredApps[index].appliedDate = r.apps[index].appliedDate
     /\ StoredApps[index].appliedDate # Some(r.now)

\* C20: an updateApplication whose patch names a derived date and no status
\* returns and stores the record with that date as it was.
C20_DatesNotSettable ==
  LET r == req[1]
      index == IndexOfId(r.apps, r.id)
  IN r.pc = "done" /\ r.op = "update" /\ r.outcome = "ok"
     /\ "status" \notin DOMAIN r.updates
       => \A d \in DOMAIN r.updates \cap DerivedDates :
            /\ r.ret[1][d] = r.apps[index][d]
            /\ StoredApps[index][d] = r.apps[index][d]

\* An entry that bears a URL: it holds a scheme followed by more, or it is
\* one word (a host without its scheme).
UrlBearing(link) ==
  \/ MatchStart(link) # 0
  \/ /\ Trim(link) # <<>>
     /\ Positions(Trim(link), " ") = {}
     /\ Positions(link, "|") = {}
     /\ \A k \in 1..Len(link) : link[k] \notin Schemes

\* The normalized URL of a URL-bearing entry.
EntryUrl(link) == normalizeUrlForComparison(ParseLink(link).url)

\* The URL-bearing entries of the batch have pairwise different URLs.
DistinctEntries(links) ==
  \A k, m \in 1..Len(links) :
     k < m /\ UrlBearing(links[k]) /\ UrlBearing(links[m])
       => EntryUrl(links[k]) # EntryUrl(links[m])

\* The entries of the batch, in order, that bear a URL no record of apps has.
RECURSIVE FreshEntries(_, _)
FreshEntries(links, apps) ==
  IF links = <<>> THEN <<>>
  ELSE IF /\ UrlBearing(Head(links))
          /\ \A i \in 1..Len(apps) :
                normalizeUrlForComparison(apps[i].url) # EntryUrl(Head(links))
    THEN <<Head(links)>> \o FreshEntries(Tail(links), apps)
  ELSE FreshEntries(Tail(links), apps)

\* C21: an ingestLinks that succeeded on a non-empty batch of pairwise
\* different URLs returns one record per entry whose URL no stored record has,
\* in input order, with a fresh id, TODO, MEDIUM, createdAt = updatedAt = now
\* and the title of a "Title|URL" entry; the store is then the old list
\* followed by these records, written in at most one backend write.
C21_IngestResult ==
  LET r == req[1]
      fresh == FreshEntries(r.links, r.apps)
  IN r.pc = "done" /\ r.op = "ingest" /\ r.outcome = "ok"
     /\ DistinctEntries(r.links)
       => /\ Len(r.ret) = Len(fresh)
          /\ \A i \in 1..Len(r.ret) :
               /\ normalizeUrlForComparison(r.ret[i].url) = EntryUrl(fresh[i])
               /\ r.ret[i].status = "TODO"
               /\ r.ret[i].priority = "MEDIUM"
               /\ r.ret[i].createdAt = r.now
               /\ r.ret[i].updatedAt = r.now
               /\ \A j \in 1..Len(r.apps) : r.apps[j].id # r.ret[i].id
               /\ Positions(fresh[i], "|") # {}
                    => r.ret[i].linkTitle = ParseLink(fresh[i]).linkTitle
          /\ UniqueIds(r.ret)
          /\ StoredApps = r.apps \o r.ret
          /\ r.writes <= 1

\* The record app comes from a URL-bearing entry of the batch.
FromUrlEntry(app, links) ==
  \E k \in 1..Len(links) :
     /\ UrlBearing(links[k])
     /\ EntryUrl(links[k]) = normalizeUrlForComparison(app.url)

\* C22: an ingestLinks on a non-empty batch fails only when its save fails,
\* and every record it returns, and every record it adds to the store, comes
\* from an entry of the batch that bears a URL.
C22_NoUrlSkipped ==
  LET r == req[1]
  IN r.pc = "done" /\ r.op = "ingest" /\ r.links # <<>>
       => /\ ~r.saveFailed => r.outcome = "ok"
          /\ \A i \in 1..Len(r.ret) : FromUrlEntry(r.ret[i], r.links)
          /\ \A i \in 1..Len(StoredApps) :
               \/ \E j \in 1..Len(r.apps) : r.apps[j] = StoredApps[i]
               \/ FromUrlEntry(StoredApps[i], r.links)

\* The ratchet sets the date field d in the update r of the record old.
RatchetSets(r, old, d) ==
  /\ "status" \in DOMAIN r.updates
  /\ r.updates.status # old.status
  /\ d \in DateFieldOf[r.updates.status]
  /\ old[d] = None

\* C23: after an updateApplication that succeeded the stored list has the
\* records it had, in order, all but the target unchanged; the target is the
\* record returned, in which updatedAt is now, a field the patch names has the
\* patch's value (a url possibly with the scheme added), a date the ratchet
\* sets is now, and every other field is as it was.
C23_UpdateFrame ==
  LET r == req[1]
      index == IndexOfId(r.apps, r.id)
      old == r.apps[index]
      t == r.ret[1]
  IN r.pc = "done" /\ r.op = "update" /\ r.outcome = "ok"
       => /\ Len(StoredApps) = Len(r.apps)
          /\ \A j \in 1..Len(r.apps) : j # index => StoredApps[j] = r.apps[j]
          /\ StoredApps[index] = t
          /\ \A f \in Fields :
               IF f = "updatedAt" THEN t[f] = r.now
               ELSE IF f = "url" /\ f \in DOMAIN r.updates
                 THEN t[f] \in {r.updates.url, AddProtocol(Trim(r.updates.url))}
               ELSE IF f \in DOMAIN r.updates THEN t[f] = r.updates[f]
               ELSE IF f \in DerivedDates /\ RatchetSets(r, old, f)
                 THEN t[f] = Some(r.now)
               ELSE t[f] = old[f]

\* The url stored for the caller's url: as given, or with the scheme added.
AsGiven(stored, url) == stored \in {url, AddProtocol(Trim(url))}

\* C27: the url of a record ingestLinks creates is the URL of its entry, and
\* the url updateApplication stores for a patch that names a non-empty url is
\* the patch's url, in both cases as the caller wrote it but for an added
\* scheme.
C27_OriginalUrlStored ==
  LET r == req[1]
      index == IndexOfId(r.apps, r.id)
  IN /\ r.pc = "done" /\ r.op = "ingest" /\ r.outcome = "ok"
          => \A i \in 1..Len(r.ret) :
               \E k \in 1..Len(r.links) :
                  /\ ~ParseLink(r.links[k]).skip
                  /\ AsGiven(r.ret[i].url, ParseLink(r.links[k]).url)
                  /\ \E j \in 1..Len(StoredApps) : StoredApps[j] = r.ret[i]
     /\ r.pc = "done" /\ r.op = "update" /\ r.outcome = "ok"
        /\ "url" \in DOMAIN r.updates /\ Trim(r.updates.url) # <<>>
          => /\ AsGiven(r.ret[1].url, r.updates.url)
             /\ AsGiven(StoredApps[index].url, r.updates.url)

\* The list apps without its records of the given id.
Remaining(apps, id) == SelectSeq(apps, LAMBDA a : a.id # id)

\* C24: a deleteApplication that succeeded on a stored id leaves in the store
\* the list it loaded without the record of that id, the others unchanged and
\* in order; the loadAll that follows returns that list, with no record of
\* that id.
C24_DeleteEffect ==
  LET r == req[1]
  IN /\ r.pc = "done" /\ r.op = "delete" /\ r.outcome = "ok"
          => /\ ~NoSuchId(r)
             /\ StoredApps = Remaining(r.apps, r.id)
     /\ r.pc = "done" /\ r.op = "load"
        /\ r.prev.op = "delete" /\ r.prev.outcome = "ok"
          => /\ r.ret = Remaining(r.prev.apps, r.prev.id)
             /\ \A i \in 1..Len(r.ret) : r.ret[i].id # r.prev.id

\* C24 witness: a loadAll after the delete of one of two stored records
\* returns the other one.
C24_DeletedGone ==
  LET r == req[1]
  IN /\ r.pc = "done" /\ r.op = "load"
     /\ r.prev.op = "delete" /\ r.prev.outcome = "ok"
     /\ Len(r.prev.apps) = 2
     /\ r.prev.id = r.prev.apps[2].id
     /\ r.ret = <<r.prev.apps[1]>>

\* C25: an archiveApplication that succeeded returns and stores what
\* updateApplication(id, {status: ARCHIVED}) does: the record stays in the
\* store, with status ARCHIVED, updatedAt now and every other field as it
\* was, the derived dates included; the other records and their number are
\* unchanged.  On an id no record has it fails with NotFound like the update.
C25_ArchiveIsSoftDelete ==
  LET r == req[1]
      index == IndexOfId(r.apps, r.id)
      old == r.apps[index]
  IN r.pc = "done" /\ r.op = "archive"
       => IF NoSuchId(r) THEN r.outcome = "NotFound"
          ELSE r.outcome = "ok"
                 => /\ r.updates = [status |-> "ARCHIVED"]
                    /\ r.ret = <<[old EXCEPT !.status = "ARCHIVED",
                                             !.updatedAt = r.now]>>
                    /\ StoredApps = [r.apps EXCEPT ![index] = r.ret[1]]

\* C25 witness: a record that was APPLIED is archived and keeps its
\* appliedDate.
C25_Archived ==
  LET r == req[1]
      index == IndexOfId(r.apps, r.id)
  IN /\ r.pc = "done" /\ r.op = "archive" /\ r.outcome = "ok"
     /\ r.apps[index].status = "APPLIED"
     /\ r.apps[index].appliedDate # None
     /\ StoredApps[index].status = "ARCHIVED"
     /\ StoredApps[index].appliedDate = r.apps[index].appliedDate
     /\ Len(StoredApps) = Len(r.apps)

\* C26: getStats always returns a stats object, and the object is all-zero
\* when its load found a stored file that is no workbook.
C26_StatsNeverFail ==
  LET r == req[1]
  IN r.pc = "done" /\ r.op = "stats"
       => /\ r.outcome = "ok"
          /\ r.blob0.kind = "garbage" => r.stats = emptyStats

\* The record at i has no url, or is the first of the list with its URL.
FirstOfUrl(apps, i) ==
  \/ apps[i].url = <<>>
  \/ \A j \in 1..i - 1 :
       normalizeUrlForComparison(apps[j].url)
         # normalizeUrlForComparison(apps[i].url)

\* The records of apps from i on that FirstOfUrl keeps, in order.
RECURSIVE KeepFirst(_, _)
KeepFirst(apps, i) ==
  IF i > Len(apps) THEN <<>>
  ELSE (IF FirstOfUrl(apps, i) THEN <<apps[i]>> ELSE <<>>)
       \o KeepFirst(apps, i + 1)

\* C28: a listApplications that found records and whose saves did not fail
\* returns, filtered, the records it loaded that have no url or are the first
\* with their URL, in order and unchanged; when it dropped records, the list
\* it stored is that whole list, whatever the filter.
C28_DedupKeepsFirst ==
  LET r == req[1]
      kept == KeepFirst(r.apps, 1)
  IN r.pc = "done" /\ r.op = "list" /\ r.apps # <<>> /\ ~r.saveFailed
       => /\ r.ret = SelectSeq(kept, LAMBDA a : r.filter \in {"", a.status})
          /\ Len(kept) < Len(r.apps) => r.writes = 1 /\ StoredApps = kept
          /\ Len(kept) = Len(r.apps) => r.writes = 0 /\ blob = r.blob0

\* C28 witness: a filtered listing found two records of one URL and a record
\* without url, and stored the first of the two and the one without url.
C28_Healed ==
  LET r == req[1]
  IN /\ r.pc = "done" /\ r.op = "list" /\ r.filter = "APPLIED"
     /\ ~r.saveFailed
     /\ Len(r.apps) = 3
     /\ \E i \in 1..3 : r.apps[i].url = <<>>
     /\ Len(StoredApps) = 2
     /\ StoredApps[1] = r.apps[1]
     /\ \E i \in 1..2 : StoredApps[i].url = <<>>
     /\ r.ret = <<>>

\* The stored list still has the record: the record itself when it has no
\* url, else a record of the same URL.
StillStored(app) ==
  \E j \in 1..Len(StoredApps) :
    IF app.url = <<>> THEN StoredApps[j] = app
    ELSE /\ StoredApps[j].url # <<>>
         /\ normalizeUrlForComparison(StoredApps[j].url)
              = normalizeUrlForComparison(app.url)

\* C29: after a listApplications, whichever of its writes failed, the store
\* holds every record without url that the listing loaded and a record for
\* every URL it loaded.
C29_ListKeepsRecords ==
  LET r == req[1]
  IN r.pc = "done" /\ r.op = "list"
       => \A i \in 1..Len(r.apps) : StillStored(r.apps[i])

\* C30: a loadApplications that follows a hardDeleteApplication(id) that
\* returned returns no record with that id, whatever another request that
\* updates, archives or clears a record does in between.
C30_DeleteNotUndone ==
  LET r == req[1]
  IN r.pc = "done" /\ r.op = "load"
     /\ r.prev.op = "delete" /\ r.prev.outcome = "ok"
       => \A i \in 1..Len(r.ret) : r.ret[i].id # r.prev.id

====
